---- MODULE Spec2Model ----
(***************************************************************************)
(* Model of pytest_flask/plugin.py: the three autouse fixtures             *)
(* _monkeypatch_response_class, _push_application_context and              *)
(* _configure_application run around each test on one shared Application,  *)
(* and the pure function _make_test_response_class.                        *)
(***************************************************************************)
EXTENDS Integers, Sequences, FiniteSets, TLC

VARIABLES
    response_class,  \* app.response_class: the Application's response-type slot
    config,          \* app.config: upper-case key -> value, or Absent
    ctxs,            \* every context made by app.test_request_context(), in order
    phase,           \* runner position: "idle", "setup", "teardown"
    cur,             \* the test being run: fixturenames gate and pytest.mark.app options
    pending,         \* autouse fixtures of this plugin not yet set up for cur
    finalizers,      \* finalizer stack of the current test (last registered runs first)
    mpSaved,         \* monkeypatch's list of saved attribute values
    report,          \* outcome of the current test: "none", "passed", "failed", "error"
    errAt,           \* which fixture raised during setup, or "none"
    bodyRan,         \* the test body was executed
    fired,           \* fixtures set up for cur, in the order the runner called them
    slotBefore,      \* response_class when the current test started
    configBefore,    \* config when the current test started
    ctxsBefore,      \* ctxs when the current test started
    testsRun,        \* number of finished tests
    tdErrors,        \* finalizers of the current test that raised during teardown
    augIn,           \* argument of the last _make_test_response_class call studied alone
    augOut,          \* its result, or NoType before the call
    wraps,           \* number of times the result was fed back as an argument
    resp,            \* a response object: its data and the __dict__ entry 'json'
    lastRead,        \* what the last read of resp.json gave
    loads,           \* number of json.loads calls made for resp
    wpc,             \* interleaved tests: position of each test
    wSaved,          \* interleaved tests: what each test's monkeypatch saved
    wTrace           \* interleaved tests: the steps taken, in order

vars == <<response_class, config, ctxs, phase, cur, pending, finalizers, mpSaved,
          report, errAt, bodyRan, fired, slotBefore, configBefore, ctxsBefore, testsRun,
          tdErrors, augIn, augOut, wraps, resp, lastRead, loads, wpc, wSaved, wTrace>>

lifeVars == <<response_class, config, ctxs, phase, cur, pending, finalizers, mpSaved,
              report, errAt, bodyRan, fired, slotBefore, configBefore, ctxsBefore, testsRun,
              tdErrors>>

augVars == <<augIn, augOut, wraps>>

jsonVars == <<resp, lastRead, loads>>

concVars == <<wpc, wSaved, wTrace>>

(***************************************************************************)
(* Bounds                                                                  *)
(***************************************************************************)
MaxTests == 2      \* tests run one after another on the Application
MaxOptions == 2    \* keyword arguments of one pytest.mark.app annotation
MaxMro == 3        \* user classes in the MRO of a response type
MaxWrap == 2       \* times a result of the augmenter is augmented again
MaxBody == 2       \* characters in a response body
MaxReads == 3      \* reads of the json accessor of one response

(***************************************************************************)
(* Response types.  A type is its method resolution order without the      *)
(* trailing `object`: a non-empty sequence of class labels.  "U" is a user *)
(* class whose __dict__ has no 'json'; "J1" and "J2" are user classes that *)
(* define their own 'json'; "Aug" is a class synthesized by type(...) with *)
(* an empty __dict__; "JSONResponse" is the plugin's mixin.                *)
(***************************************************************************)
NoMember == "no json"
NoType == <<>>

UserClasses == {"U", "J1", "J2"}

\* 'json' in cls.__dict__, as the member it names
OwnJson(cls) ==
    CASE cls = "J1" -> "J1.json"
      [] cls = "J2" -> "J2.json"
      [] cls = "JSONResponse" -> "JSONResponse.json"
      [] OTHER -> NoMember

\* attribute lookup of 'json' on a type: the first class of the MRO that defines it
RECURSIVE ResolveJson(_)
ResolveJson(mro) ==
    IF mro = <<>> THEN NoMember
    ELSE IF OwnJson(Head(mro)) # NoMember THEN OwnJson(Head(mro))
    ELSE ResolveJson(Tail(mro))

InMro(cls, mro) == \E i \in DOMAIN mro : mro[i] = cls

\* mutant of SynthesizedMro: the mixin is listed before the original class
SynthesizedMroMixinFirst(rc) ==
    <<"Aug", "JSONResponse">> \o SelectSeq(rc, LAMBDA c : c # "JSONResponse")

\* MRO of type(str(JSONResponse), (response_class, JSONResponse), {})
SynthesizedMro(rc) ==
    <<"Aug">> \o rc \o (IF InMro("JSONResponse", rc) THEN <<>> ELSE <<"JSONResponse">>)

\* _make_test_response_class(response_class)
MakeTestResponseClass(rc) ==
    IF OwnJson(Head(rc)) # NoMember THEN rc ELSE SynthesizedMro(rc)

\* user-written response types: MROs of one to MaxMro user classes
UserTypes ==
    UNION {[1..n -> UserClasses] : n \in 1..MaxMro}

(***************************************************************************)
(* The Application's configuration and the pytest.mark.app annotation.     *)
(* A key is a sequence of characters, so that str.upper() is computed.     *)
(***************************************************************************)
Absent == "absent"
Values == {"true", "false"}

OptionNames == {<<"d", "b">>, <<"D", "B">>, <<"t", "e">>}

\* one character of str.upper()
UpperChar(c) ==
    CASE c = "d" -> "D"
      [] c = "b" -> "B"
      [] c = "t" -> "T"
      [] c = "e" -> "E"
      [] OTHER -> c

\* key.upper()
Upper(key) == [i \in DOMAIN key |-> UpperChar(key[i])]

OtherKey == <<"S", "K">>
ConfigKeys == {Upper(k) : k \in OptionNames} \cup {OtherKey}

\* options.kwargs of a pytest.mark.app(...) annotation: at most MaxOptions keywords
Annotations ==
    UNION {[S -> Values] : S \in {T \in SUBSET OptionNames : Cardinality(T) <= MaxOptions}}

NoKwargs == <<>>

\* the orders in which dict.items() can yield the keys of kwargs
RECURSIVE Orders(_)
Orders(S) ==
    IF S = {} THEN {<<>>}
    ELSE UNION {{<<k>> \o o : o \in Orders(S \ {k})} : k \in S}

\* mutant of ApplyOptions: a key the mapping already holds is not overwritten
RECURSIVE ApplyOptionsSetDefault(_, _, _, _)
ApplyOptionsSetDefault(cfg, kwargs, order, n) ==
    IF n = 0 THEN cfg
    ELSE LET prev == ApplyOptionsSetDefault(cfg, kwargs, order, n - 1)
         IN  IF prev[Upper(order[n])] # Absent THEN prev
             ELSE [prev EXCEPT ![Upper(order[n])] = kwargs[order[n]]]

\* app.config[key.upper()] = value, for the first n keys of order
RECURSIVE ApplyOptions(_, _, _, _)
ApplyOptions(cfg, kwargs, order, n) ==
    IF n = 0 THEN cfg
    ELSE LET prev == ApplyOptions(cfg, kwargs, order, n - 1)
         IN  [prev EXCEPT ![Upper(order[n])] = kwargs[order[n]]]

Fixtures == {"_monkeypatch_response_class", "_push_application_context",
             "_configure_application"}

InitialTypes == {<<"U">>, <<"J1", "U">>, <<"U", "J1">>}

NoTest == [declares |-> FALSE, marked |-> FALSE, kwargs |-> NoKwargs]

Tests ==
    {[declares |-> d, marked |-> FALSE, kwargs |-> NoKwargs] : d \in BOOLEAN}
    \cup {[declares |-> d, marked |-> TRUE, kwargs |-> a] : d \in BOOLEAN, a \in Annotations}

NoRead == [n |-> 0, outcome |-> "none", value |-> <<>>, data |-> <<>>]
NoResponse == [made |-> FALSE, data |-> <<>>, cache |-> <<>>]
Workers == {1, 2}

\* no response object is under study
JsonIdle ==
    /\ resp = NoResponse
    /\ lastRead = NoRead
    /\ loads = 0

\* no interleaved tests are under study
ConcIdle ==
    /\ wpc = [w \in Workers |-> "off"]
    /\ wSaved = [w \in Workers |-> <<>>]
    /\ wTrace = <<>>

Init ==
    /\ response_class \in InitialTypes
    /\ config \in {[k \in ConfigKeys |->
                      IF k = OtherKey THEN "true"
                      ELSE IF k = <<"D", "B">> THEN v ELSE Absent] : v \in {Absent, "true"}}
    /\ ctxs = <<>>
    /\ phase = "idle"
    /\ cur = NoTest
    /\ pending = {}
    /\ finalizers = <<>>
    /\ mpSaved = <<>>
    /\ report = "none"
    /\ errAt = "none"
    /\ bodyRan = FALSE
    /\ fired = <<>>
    /\ slotBefore = response_class
    /\ configBefore = config
    /\ ctxsBefore = ctxs
    /\ testsRun = 0
    /\ tdErrors = {}
    /\ augIn = <<"U">>
    /\ augOut = NoType
    /\ wraps = 0
    /\ JsonIdle
    /\ ConcIdle

(***************************************************************************)
(* The runner: collects a test, sets up the autouse fixtures, calls the    *)
(* body, runs the finalizers last-registered-first.                        *)
(***************************************************************************)
\* the runner starts the next test; all three fixtures are autouse
StartTest ==
    /\ phase = "idle"
    /\ testsRun < MaxTests
    /\ \E t \in Tests : cur' = t
    /\ phase' = "setup"
    /\ pending' = Fixtures
    /\ finalizers' = <<>>
    /\ mpSaved' = <<>>
    /\ report' = "none"
    /\ errAt' = "none"
    /\ bodyRan' = FALSE
    /\ fired' = <<>>
    /\ slotBefore' = response_class
    /\ configBefore' = config
    /\ ctxsBefore' = ctxs
    /\ tdErrors' = {}
    /\ UNCHANGED <<response_class, config, ctxs, testsRun, augVars, jsonVars, concVars>>

\* a fixture of the plugin returned: it is set up
SetUp(f) ==
    /\ pending' = pending \ {f}
    /\ fired' = Append(fired, f)

\* a fixture of the plugin raised: the test is a setup error, teardown follows
SetupError(f) ==
    /\ phase' = "teardown"
    /\ report' = "error"
    /\ errAt' = f
    /\ fired' = Append(fired, f)
    /\ UNCHANGED pending

UndoFinalizer == [kind |-> "undo", ctx |-> 0]
PopFinalizer(i) == [kind |-> "pop", ctx |-> i]

\* mutant of MonkeypatchResponseClass: app.response_class is assigned directly,
\* so monkeypatch saves nothing
MonkeypatchResponseClassDirectAssign ==
    /\ phase = "setup"
    /\ "_monkeypatch_response_class" \in pending
    /\ finalizers' = Append(finalizers, UndoFinalizer)
    /\ IF ~cur.declares
       THEN UNCHANGED <<response_class, mpSaved>>
       ELSE /\ response_class' = MakeTestResponseClass(response_class)
            /\ UNCHANGED mpSaved
    /\ SetUp("_monkeypatch_response_class")
    /\ UNCHANGED <<config, ctxs, phase, cur, report, errAt, bodyRan,
                   slotBefore, configBefore, ctxsBefore, testsRun, tdErrors, augVars, jsonVars, concVars>>

\* _monkeypatch_response_class(request, monkeypatch): the monkeypatch fixture it
\* requests is set up first and registers its undo
MonkeypatchResponseClass ==
    /\ phase = "setup"
    /\ "_monkeypatch_response_class" \in pending
    /\ finalizers' = Append(finalizers, UndoFinalizer)
    /\ IF ~cur.declares
       THEN UNCHANGED <<response_class, mpSaved>>
       ELSE /\ mpSaved' = Append(mpSaved, response_class)
            /\ response_class' = MakeTestResponseClass(response_class)
    /\ SetUp("_monkeypatch_response_class")
    /\ UNCHANGED <<config, ctxs, phase, cur, report, errAt, bodyRan,
                   slotBefore, configBefore, ctxsBefore, testsRun, tdErrors, augVars, jsonVars, concVars>>

\* a context object: how often ctx.push() completed and ctx.pop() was called
NewCtx(st) == [pushes |-> IF st = "active" THEN 1 ELSE 0, pops |-> 0]

\* mutant of PushApplicationContext: no gate on request.fixturenames
PushApplicationContextNoGate ==
    /\ phase = "setup"
    /\ "_push_application_context" \in pending
    /\ ctxs' = Append(ctxs, NewCtx("active"))
    /\ finalizers' = Append(finalizers, PopFinalizer(Len(ctxs) + 1))
    /\ SetUp("_push_application_context")
    /\ UNCHANGED <<phase, report, errAt>>
    /\ UNCHANGED <<response_class, config, cur, mpSaved, bodyRan,
                   slotBefore, configBefore, ctxsBefore, testsRun, tdErrors, augVars, jsonVars, concVars>>

\* mutant of PushApplicationContext: the finalizer is never registered
PushApplicationContextNoFinalizer ==
    /\ phase = "setup"
    /\ "_push_application_context" \in pending
    /\ IF ~cur.declares
       THEN /\ SetUp("_push_application_context")
            /\ UNCHANGED <<ctxs, finalizers, phase, report, errAt>>
       ELSE /\ ctxs' = Append(ctxs, NewCtx("active"))
            /\ SetUp("_push_application_context")
            /\ UNCHANGED <<finalizers, phase, report, errAt>>
    /\ UNCHANGED <<response_class, config, cur, mpSaved, bodyRan,
                   slotBefore, configBefore, ctxsBefore, testsRun, tdErrors, augVars, jsonVars, concVars>>

\* mutant of PushApplicationContext: the finalizer is registered before ctx.push()
PushApplicationContextFinalizerFirst ==
    /\ phase = "setup"
    /\ "_push_application_context" \in pending
    /\ IF ~cur.declares
       THEN /\ SetUp("_push_application_context")
            /\ UNCHANGED <<ctxs, finalizers, phase, report, errAt>>
       ELSE \/ /\ ctxs' = Append(ctxs, NewCtx("active"))
               /\ finalizers' = Append(finalizers, PopFinalizer(Len(ctxs) + 1))
               /\ SetUp("_push_application_context")
               /\ UNCHANGED <<phase, report, errAt>>
            \/ /\ ctxs' = Append(ctxs, NewCtx("created"))
               /\ finalizers' = Append(finalizers, PopFinalizer(Len(ctxs) + 1))
               /\ SetupError("_push_application_context")
    /\ UNCHANGED <<response_class, config, cur, mpSaved, bodyRan,
                   slotBefore, configBefore, ctxsBefore, testsRun, tdErrors, augVars, jsonVars, concVars>>

\* mutant of PushApplicationContext: the context is created but not pushed
PushApplicationContextNoPush ==
    /\ phase = "setup"
    /\ "_push_application_context" \in pending
    /\ IF ~cur.declares
       THEN /\ SetUp("_push_application_context")
            /\ UNCHANGED <<ctxs, finalizers, phase, report, errAt>>
       ELSE /\ ctxs' = Append(ctxs, NewCtx("created"))
            /\ finalizers' = Append(finalizers, PopFinalizer(Len(ctxs) + 1))
            /\ SetUp("_push_application_context")
            /\ UNCHANGED <<phase, report, errAt>>
    /\ UNCHANGED <<response_class, config, cur, mpSaved, bodyRan,
                   slotBefore, configBefore, ctxsBefore, testsRun, tdErrors, augVars, jsonVars, concVars>>

\* _push_application_context(request): app.test_request_context() or ctx.push()
\* may raise, and then request.addfinalizer is not reached
PushApplicationContext ==
    /\ phase = "setup"
    /\ "_push_application_context" \in pending
    /\ IF ~cur.declares
       THEN /\ SetUp("_push_application_context")
            /\ UNCHANGED <<ctxs, finalizers, phase, report, errAt>>
       ELSE \/ /\ ctxs' = Append(ctxs, NewCtx("active"))
               /\ finalizers' = Append(finalizers, PopFinalizer(Len(ctxs) + 1))
               /\ SetUp("_push_application_context")
               /\ UNCHANGED <<phase, report, errAt>>
            \/ /\ SetupError("_push_application_context")
               /\ UNCHANGED <<ctxs, finalizers>>
            \/ /\ ctxs' = Append(ctxs, NewCtx("created"))
               /\ SetupError("_push_application_context")
               /\ UNCHANGED finalizers
    /\ UNCHANGED <<response_class, config, cur, mpSaved, bodyRan,
                   slotBefore, configBefore, ctxsBefore, testsRun, tdErrors, augVars, jsonVars, concVars>>

\* mutant of ConfigureApplication: an error of the configuration write is swallowed
ConfigureApplicationSwallow ==
    /\ phase = "setup"
    /\ "_configure_application" \in pending
    /\ IF ~cur.declares \/ ~cur.marked
       THEN /\ SetUp("_configure_application")
            /\ UNCHANGED <<config, phase, report, errAt>>
       ELSE \E order \in Orders(DOMAIN cur.kwargs) : \E n \in 0..Len(order) :
              /\ config' = ApplyOptions(config, cur.kwargs, order, n)
              /\ SetUp("_configure_application")
              /\ errAt' = IF n = Len(order) THEN errAt ELSE "_configure_application"
              /\ UNCHANGED <<phase, report>>
    /\ UNCHANGED <<response_class, ctxs, cur, finalizers, mpSaved, bodyRan,
                   slotBefore, configBefore, ctxsBefore, testsRun, tdErrors, augVars, jsonVars, concVars>>

\* _configure_application(request): the keys are written in the order items()
\* yields them; a write the Application rejects raises out of the fixture and
\* leaves the earlier writes in place
ConfigureApplication ==
    /\ phase = "setup"
    /\ "_configure_application" \in pending
    /\ IF ~cur.declares \/ ~cur.marked
       THEN /\ SetUp("_configure_application")
            /\ UNCHANGED <<config, phase, report, errAt>>
       ELSE \E order \in Orders(DOMAIN cur.kwargs) : \E n \in 0..Len(order) :
              /\ config' = ApplyOptions(config, cur.kwargs, order, n)
              /\ IF n = Len(order)
                 THEN /\ SetUp("_configure_application")
                      /\ UNCHANGED <<phase, report, errAt>>
                 ELSE SetupError("_configure_application")
    /\ UNCHANGED <<response_class, ctxs, cur, finalizers, mpSaved, bodyRan,
                   slotBefore, configBefore, ctxsBefore, testsRun, tdErrors, augVars, jsonVars, concVars>>

\* the runner calls the test body once every fixture is set up; the body passes
\* or raises
CallTest ==
    /\ phase = "setup"
    /\ pending = {}
    /\ bodyRan' = TRUE
    /\ \E outcome \in {"passed", "failed"} : report' = outcome
    /\ phase' = "teardown"
    /\ UNCHANGED <<response_class, config, ctxs, cur, pending, finalizers, mpSaved,
                   errAt, fired, slotBefore, configBefore, ctxsBefore, testsRun, tdErrors, augVars, jsonVars, concVars>>

LastFinalizer == finalizers[Len(finalizers)]

\* mutant of Teardown: a pop that raises takes the remaining cleanups with it
TeardownAbortsOnError ==
    /\ phase = "teardown"
    /\ finalizers # <<>>
    /\ LastFinalizer.kind = "pop"
    /\ ctxs' = [ctxs EXCEPT ![LastFinalizer.ctx].pops = @ + 1]
    /\ \/ /\ finalizers' = SubSeq(finalizers, 1, Len(finalizers) - 1)
          /\ UNCHANGED tdErrors
       \/ /\ finalizers' = <<>>
          /\ tdErrors' = tdErrors \cup {"pop"}
    /\ UNCHANGED <<response_class, config, phase, cur, pending, mpSaved, report, errAt,
                   bodyRan, fired, slotBefore, configBefore, ctxsBefore, testsRun,
                   augVars, jsonVars, concVars>>

\* mutant of Teardown: the teardown also puts the configuration back
TeardownRestoresConfig ==
    /\ phase = "teardown"
    /\ finalizers # <<>>
    /\ LastFinalizer.kind = "pop"
    /\ ctxs' = [ctxs EXCEPT ![LastFinalizer.ctx].pops = @ + 1]
    /\ config' = configBefore
    /\ finalizers' = SubSeq(finalizers, 1, Len(finalizers) - 1)
    /\ \E raised \in BOOLEAN :
          tdErrors' = IF raised THEN tdErrors \cup {"pop"} ELSE tdErrors
    /\ UNCHANGED <<response_class, phase, cur, pending, mpSaved, report, errAt,
                   bodyRan, fired, slotBefore, configBefore, ctxsBefore, testsRun,
                   augVars, jsonVars, concVars>>

\* teardown() registered by _push_application_context: ctx.pop(), which returns
\* or raises; the runner records a raising finalizer as a teardown error and
\* goes on with the finalizers that remain
Teardown ==
    /\ phase = "teardown"
    /\ finalizers # <<>>
    /\ LastFinalizer.kind = "pop"
    /\ ctxs' = [ctxs EXCEPT ![LastFinalizer.ctx].pops = @ + 1]
    /\ finalizers' = SubSeq(finalizers, 1, Len(finalizers) - 1)
    /\ \E raised \in BOOLEAN :
          tdErrors' = IF raised THEN tdErrors \cup {"pop"} ELSE tdErrors
    /\ UNCHANGED <<response_class, config, phase, cur, pending, mpSaved, report, errAt,
                   bodyRan, fired, slotBefore, configBefore, ctxsBefore, testsRun,
                   augVars, jsonVars, concVars>>

\* monkeypatch.undo(): the attributes set through monkeypatch.setattr get their
\* saved values back, the last one set first
MonkeypatchUndo ==
    /\ phase = "teardown"
    /\ finalizers # <<>>
    /\ LastFinalizer.kind = "undo"
    /\ response_class' = IF mpSaved = <<>> THEN response_class ELSE mpSaved[1]
    /\ mpSaved' = <<>>
    /\ finalizers' = SubSeq(finalizers, 1, Len(finalizers) - 1)
    /\ UNCHANGED <<config, ctxs, phase, cur, pending, report, errAt,
                   bodyRan, fired, slotBefore, configBefore, ctxsBefore, testsRun, tdErrors, augVars, jsonVars, concVars>>

\* every finalizer has run: the test is finished
FinishTest ==
    /\ phase = "teardown"
    /\ finalizers = <<>>
    /\ phase' = "idle"
    /\ testsRun' = testsRun + 1
    /\ UNCHANGED <<response_class, config, ctxs, cur, pending, finalizers, mpSaved,
                   report, errAt, bodyRan, fired, slotBefore, configBefore, ctxsBefore,
                   tdErrors, augVars, jsonVars, concVars>>

Next ==
    \/ StartTest
    \/ MonkeypatchResponseClass
    \/ PushApplicationContext
    \/ ConfigureApplication
    \/ CallTest
    \/ Teardown
    \/ MonkeypatchUndo
    \/ FinishTest

Spec == Init /\ [][Next]_vars

(***************************************************************************)
(* The lifecycle under pytest's set-up order.  No fixture of the plugin    *)
(* requests another, so the order is the runner's: pytest sets up the      *)
(* autouse fixtures of a plugin module in the order of their names.        *)
(***************************************************************************)
SetupOrder == <<"_configure_application", "_monkeypatch_response_class",
                "_push_application_context">>

\* f is the fixture the runner sets up next
IsNext(f) == Len(fired) < Len(SetupOrder) /\ SetupOrder[Len(fired) + 1] = f

NextByName ==
    \/ StartTest
    \/ IsNext("_configure_application") /\ ConfigureApplication
    \/ IsNext("_monkeypatch_response_class") /\ MonkeypatchResponseClass
    \/ IsNext("_push_application_context") /\ PushApplicationContext
    \/ CallTest
    \/ Teardown
    \/ MonkeypatchUndo
    \/ FinishTest

SpecByName == Init /\ [][NextByName]_vars

(***************************************************************************)
(* _make_test_response_class alone: applied to a response type, and again  *)
(* to its own result.                                                      *)
(***************************************************************************)
InitAug ==
    /\ response_class = <<"U">>
    /\ config = [k \in ConfigKeys |-> Absent]
    /\ ctxs = <<>>
    /\ phase = "idle"
    /\ cur = NoTest
    /\ pending = {}
    /\ finalizers = <<>>
    /\ mpSaved = <<>>
    /\ report = "none"
    /\ errAt = "none"
    /\ bodyRan = FALSE
    /\ fired = <<>>
    /\ slotBefore = response_class
    /\ configBefore = config
    /\ ctxsBefore = ctxs
    /\ testsRun = 0
    /\ tdErrors = {}
    /\ augIn \in UserTypes
    /\ augOut = NoType
    /\ wraps = 0
    /\ JsonIdle
    /\ ConcIdle

\* result = _make_test_response_class(augIn)
Augment ==
    /\ augOut = NoType
    /\ augOut' = MakeTestResponseClass(augIn)
    /\ UNCHANGED <<augIn, wraps, lifeVars, jsonVars, concVars>>

\* the result becomes the argument of the next call
Reaugment ==
    /\ augOut # NoType
    /\ wraps < MaxWrap
    /\ augIn' = augOut
    /\ augOut' = NoType
    /\ wraps' = wraps + 1
    /\ UNCHANGED <<lifeVars, jsonVars, concVars>>

NextAug ==
    \/ Augment
    \/ Reaugment

SpecAug == InitAug /\ [][NextAug]_vars

(***************************************************************************)
(* JSONResponse.json on one response object.  A body is a sequence of the  *)
(* characters "[", "]" and "1"; json.loads accepts a number written with   *)
(* the digit 1 and a list, empty or of one element (no comma is in the     *)
(* alphabet).  A decoded value is the number and the depth of the lists    *)
(* around it.                                                              *)
(***************************************************************************)
BodyChars == {"[", "]", "1"}

Bodies == UNION {[1..n -> BodyChars] : n \in 0..MaxBody}

DecodeError == [ok |-> FALSE, depth |-> 0, empty |-> FALSE, num |-> 0]

\* the integer written by n digits 1
RECURSIVE Ones(_)
Ones(n) == IF n = 0 THEN 0 ELSE 10 * Ones(n - 1) + 1

\* json.loads(self.data)
RECURSIVE JsonLoads(_)
JsonLoads(s) ==
    IF s = <<>> THEN DecodeError
    ELSE IF \A i \in DOMAIN s : s[i] = "1"
    THEN [ok |-> TRUE, depth |-> 0, empty |-> FALSE, num |-> Ones(Len(s))]
    ELSE IF Len(s) >= 2 /\ s[1] = "[" /\ s[Len(s)] = "]"
    THEN LET inner == SubSeq(s, 2, Len(s) - 1)
         IN  IF inner = <<>>
             THEN [ok |-> TRUE, depth |-> 1, empty |-> TRUE, num |-> 0]
             ELSE LET v == JsonLoads(inner)
                  IN  IF v.ok THEN [v EXCEPT !.depth = @ + 1] ELSE DecodeError
    ELSE DecodeError

InitJson ==
    /\ response_class = <<"U">>
    /\ config = [k \in ConfigKeys |-> Absent]
    /\ ctxs = <<>>
    /\ phase = "idle"
    /\ cur = NoTest
    /\ pending = {}
    /\ finalizers = <<>>
    /\ mpSaved = <<>>
    /\ report = "none"
    /\ errAt = "none"
    /\ bodyRan = FALSE
    /\ fired = <<>>
    /\ slotBefore = response_class
    /\ configBefore = config
    /\ ctxsBefore = ctxs
    /\ testsRun = 0
    /\ tdErrors = {}
    /\ augIn = <<"U">>
    /\ augOut = NoType
    /\ wraps = 0
    /\ JsonIdle
    /\ ConcIdle

\* an instance of the augmented response class is constructed: JSONResponse has
\* no __init__ and 'json' is not in the instance's __dict__
Construct ==
    /\ ~resp.made
    /\ \E body \in Bodies : resp' = [made |-> TRUE, data |-> body, cache |-> <<>>]
    /\ lastRead' = NoRead
    /\ UNCHANGED <<loads, lifeVars, augVars, concVars>>

\* the response's data is replaced
SetData ==
    /\ resp.made
    /\ \E body \in Bodies : resp' = [resp EXCEPT !.data = body]
    /\ UNCHANGED <<lastRead, loads, lifeVars, augVars, concVars>>

\* mutant of ReadJson: json is a plain property, decoded at every read
ReadJsonNoCache ==
    /\ resp.made
    /\ lastRead.n < MaxReads
    /\ LET v == JsonLoads(resp.data)
       IN  /\ loads' = loads + 1
           /\ lastRead' = [n |-> lastRead.n + 1,
                           outcome |-> IF v.ok THEN "value" ELSE "raise",
                           value |-> IF v.ok THEN <<v>> ELSE <<>>,
                           data |-> resp.data]
           /\ UNCHANGED resp
    /\ UNCHANGED <<lifeVars, augVars, concVars>>

\* mutant of ReadJson: a body that does not decode reads as a cached null
ReadJsonNullOnError ==
    /\ resp.made
    /\ lastRead.n < MaxReads
    /\ IF resp.cache # <<>>
       THEN /\ lastRead' = [n |-> lastRead.n + 1, outcome |-> "value",
                            value |-> resp.cache, data |-> resp.data]
            /\ UNCHANGED <<resp, loads>>
       ELSE LET v == JsonLoads(resp.data)
            IN  /\ loads' = loads + 1
                /\ resp' = [resp EXCEPT !.cache = <<v>>]
                /\ lastRead' = [n |-> lastRead.n + 1, outcome |-> "value",
                                value |-> <<v>>, data |-> resp.data]
    /\ UNCHANGED <<lifeVars, augVars, concVars>>

\* a read of response.json through cached_property: the value in the instance's
\* __dict__ if there is one, else json.loads(self.data), stored when it returns
ReadJson ==
    /\ resp.made
    /\ lastRead.n < MaxReads
    /\ IF resp.cache # <<>>
       THEN /\ lastRead' = [n |-> lastRead.n + 1, outcome |-> "value",
                            value |-> resp.cache, data |-> resp.data]
            /\ UNCHANGED <<resp, loads>>
       ELSE LET v == JsonLoads(resp.data)
            IN  /\ loads' = loads + 1
                /\ IF v.ok
                   THEN /\ resp' = [resp EXCEPT !.cache = <<v>>]
                        /\ lastRead' = [n |-> lastRead.n + 1, outcome |-> "value",
                                        value |-> <<v>>, data |-> resp.data]
                   ELSE /\ lastRead' = [n |-> lastRead.n + 1, outcome |-> "raise",
                                        value |-> <<>>, data |-> resp.data]
                        /\ UNCHANGED resp
    /\ UNCHANGED <<lifeVars, augVars, concVars>>

NextJson ==
    \/ Construct
    \/ SetData
    \/ ReadJson

SpecJson == InitJson /\ [][NextJson]_vars

(***************************************************************************)
(* Two tests that declare 'app' on one Application, their fixtures set up  *)
(* and torn down without the runner serializing them.  Each test has its   *)
(* own monkeypatch; only the response-type slot is followed.               *)
(***************************************************************************)
InitConc ==
    /\ response_class \in UserTypes
    /\ config = [k \in ConfigKeys |-> Absent]
    /\ ctxs = <<>>
    /\ phase = "idle"
    /\ cur = NoTest
    /\ pending = {}
    /\ finalizers = <<>>
    /\ mpSaved = <<>>
    /\ report = "none"
    /\ errAt = "none"
    /\ bodyRan = FALSE
    /\ fired = <<>>
    /\ slotBefore = response_class
    /\ configBefore = config
    /\ ctxsBefore = ctxs
    /\ testsRun = 0
    /\ tdErrors = {}
    /\ augIn = <<"U">>
    /\ augOut = NoType
    /\ wraps = 0
    /\ JsonIdle
    /\ wpc = [w \in Workers |-> "ready"]
    /\ wSaved = [w \in Workers |-> <<>>]
    /\ wTrace = <<>>

concRest == <<config, ctxs, phase, cur, pending, finalizers, mpSaved, report, errAt,
              bodyRan, fired, slotBefore, configBefore, ctxsBefore, testsRun, tdErrors,
              augVars, jsonVars>>

\* mutant of ConcPatch: the slot is assigned directly, monkeypatch saves nothing
ConcPatchDirectAssign(w) ==
    /\ wpc[w] = "ready"
    /\ response_class' = MakeTestResponseClass(response_class)
    /\ wpc' = [wpc EXCEPT ![w] = "patched"]
    /\ wTrace' = Append(wTrace, [w |-> w, step |-> "patch"])
    /\ UNCHANGED <<wSaved, concRest>>

\* _monkeypatch_response_class of test w: monkeypatch.setattr saves the slot's
\* current value and installs the augmented one
ConcPatch(w) ==
    /\ wpc[w] = "ready"
    /\ wSaved' = [wSaved EXCEPT ![w] = <<response_class>>]
    /\ response_class' = MakeTestResponseClass(response_class)
    /\ wpc' = [wpc EXCEPT ![w] = "patched"]
    /\ wTrace' = Append(wTrace, [w |-> w, step |-> "patch"])
    /\ UNCHANGED concRest

\* the undo of test w's monkeypatch: the slot gets the value that test saved
ConcUndo(w) ==
    /\ wpc[w] = "patched"
    /\ response_class' = IF wSaved[w] = <<>> THEN response_class ELSE wSaved[w][1]
    /\ wSaved' = [wSaved EXCEPT ![w] = <<>>]
    /\ wpc' = [wpc EXCEPT ![w] = "done"]
    /\ wTrace' = Append(wTrace, [w |-> w, step |-> "undo"])
    /\ UNCHANGED concRest

NextConc ==
    \/ \E w \in Workers : ConcPatch(w)
    \/ \E w \in Workers : ConcUndo(w)

SpecConc == InitConc /\ [][NextConc]_vars

(***************************************************************************)
(* Properties                                                              *)
(***************************************************************************)
Range(seq) == {seq[i] : i \in DOMAIN seq}

Done(f) == f \in Range(fired) /\ errAt # f

\* the contexts made during the current test
OwnCtxs == (Len(ctxsBefore) + 1)..Len(ctxs)

\* C1: after the teardown of a test that declares 'app', the response-type slot
\* holds the value it held before the test's setup, whether the body passed,
\* the body failed or a fixture raised during setup.
C1_SlotRestored ==
    (phase = "idle" /\ testsRun > 0 /\ cur.declares) => response_class = slotBefore

C1_Witness ==
    /\ phase = "idle"
    /\ testsRun >= 2
    /\ cur.declares
    /\ report = "error"
    /\ errAt = "_configure_application"
    /\ Done("_monkeypatch_response_class")
    /\ Done("_push_application_context")
    /\ MakeTestResponseClass(slotBefore) # slotBefore
    /\ response_class = slotBefore

\* C2: every context is pushed at most once and popped at most once, never
\* popped without having been pushed, and once a test is finished every
\* context that was pushed has been popped: activations equal deactivations.
C2_ContextSymmetry ==
    /\ \A i \in DOMAIN ctxs : ctxs[i].pops <= ctxs[i].pushes /\ ctxs[i].pushes <= 1
    /\ phase = "idle" => \A i \in DOMAIN ctxs : ctxs[i].pops = ctxs[i].pushes

C2_Witness ==
    /\ phase = "idle"
    /\ report = "failed"
    /\ Len(ctxs) >= 2
    /\ OwnCtxs # {}
    /\ \A i \in DOMAIN ctxs : ctxs[i].pushes = 1 /\ ctxs[i].pops = 1

\* C3: during and after a test whose fixture names do not include 'app', the
\* configuration mapping, the response-type slot and the contexts are as they
\* were when the test started, no teardown is registered and monkeypatch has
\* saved nothing.
C3_Gating ==
    ~cur.declares =>
        /\ config = configBefore
        /\ response_class = slotBefore
        /\ ctxs = ctxsBefore
        /\ \A i \in DOMAIN finalizers : finalizers[i].kind # "pop"
        /\ mpSaved = <<>>

C3_Witness ==
    /\ ~cur.declares
    /\ cur.marked
    /\ \E k \in DOMAIN cur.kwargs : configBefore[Upper(k)] # cur.kwargs[k]
    /\ phase = "idle"
    /\ testsRun >= 2
    /\ Len(ctxs) >= 1
    /\ bodyRan
    /\ Range(fired) = Fixtures

\* the keys of the annotation that str.upper() sends to the configuration key K
Sources(K) == {k \in DOMAIN cur.kwargs : Upper(k) = K}

Configured == cur.declares /\ Done("_configure_application")

\* C4 as stated: once _configure_application has run for a test declaring 'app',
\* the mapping holds at the upper-cased form of every annotation key that key's
\* value, and every other key keeps its prior value (all keys, when no
\* annotation is attached).
C4_AsStated ==
    Configured =>
        /\ \A k \in DOMAIN cur.kwargs : config[Upper(k)] = cur.kwargs[k]
        /\ \A K \in ConfigKeys : Sources(K) = {} => config[K] = configBefore[K]

\* C4 amended: once _configure_application has run for a test declaring 'app',
\* a configuration key that is the upper-cased form of annotation keys holds the
\* value of one of them (of the only one, when no two keys differ by case only),
\* and every other key keeps its prior value.
C4_UpperCasedOverride ==
    Configured =>
        \A K \in ConfigKeys :
            IF Sources(K) = {} THEN config[K] = configBefore[K]
            ELSE \E k \in Sources(K) : config[K] = cur.kwargs[k]

C4_Witness ==
    /\ Configured
    /\ cur.marked
    /\ \E k \in DOMAIN cur.kwargs :
          /\ Sources(Upper(k)) = {k}
          /\ k # Upper(k)
          /\ configBefore[Upper(k)] \notin {Absent, cur.kwargs[k]}
          /\ config[Upper(k)] = cur.kwargs[k]
    /\ config[OtherKey] = configBefore[OtherKey]

ClaimedOrder == <<"_monkeypatch_response_class", "_push_application_context",
                  "_configure_application">>

\* C5 as stated: for a test declaring 'app' the fixtures fire in the order
\* augment, activate, configure, and the body starts after all three.
C5_AsStated ==
    cur.declares =>
        /\ \A i \in DOMAIN fired : fired[i] = ClaimedOrder[i]
        /\ bodyRan => fired = ClaimedOrder

\* what the three fixtures have done for a test declaring 'app' when none failed
AllThreeDone ==
    /\ \A f \in Fixtures : Done(f)
    /\ pending = {}
    /\ response_class = MakeTestResponseClass(slotBefore)
    /\ mpSaved = <<slotBefore>>
    /\ \E i \in OwnCtxs : ctxs[i].pushes = 1 /\ ctxs[i].pops = 0
    /\ C4_UpperCasedOverride

\* C5 amended: the body of a test declaring 'app' starts only when all three
\* fixtures have completed: the augmented type is installed, a context is
\* active and the annotation is applied (in whatever order the runner called
\* them).
C5_AllBeforeBody ==
    [][(~bodyRan /\ bodyRan' /\ cur.declares) => AllThreeDone]_vars

C5_Witness ==
    /\ bodyRan
    /\ cur.declares
    /\ cur.marked
    /\ DOMAIN cur.kwargs # {}
    /\ fired # ClaimedOrder
    /\ fired[1] = "_configure_application"
    /\ phase = "teardown"
    /\ Len(finalizers) = 2

\* C6 as stated: _make_test_response_class applied to its own result returns
\* that result itself.
C6_Idempotent ==
    (wraps >= 1 /\ augOut # NoType) => augOut = augIn

\* C7 as stated: a response type on which 'json' resolves, from its own
\* __dict__ or from a base, is returned unchanged.
C7_ExposedReturnedUnchanged ==
    (augOut # NoType /\ ResolveJson(augIn) # NoMember) => augOut = augIn

\* C8: when 'json' resolves on the argument, 'json' resolves on the result to
\* the same member, so to JSONResponse.json only if that was the argument's.
C8_ExistingMemberWins ==
    (augOut # NoType /\ ResolveJson(augIn) # NoMember)
        => ResolveJson(augOut) = ResolveJson(augIn)

C8_Witness ==
    /\ augOut # NoType
    /\ augOut # augIn
    /\ InMro("JSONResponse", augOut)
    /\ ResolveJson(augIn) \in {"J1.json", "J2.json"}
    /\ ResolveJson(augOut) = ResolveJson(augIn)

\* C9: when app.test_request_context() or ctx.push() raised, the test is a
\* setup error, its body does not run, no pop is registered and no context
\* made in the test is ever popped.
C9_PushFailure ==
    errAt = "_push_application_context" =>
        /\ report = "error"
        /\ ~bodyRan
        /\ \A i \in DOMAIN finalizers : finalizers[i].kind # "pop"
        /\ \A i \in OwnCtxs : ctxs[i].pops = 0 /\ ctxs[i].pushes = 0

C9_Witness ==
    /\ errAt = "_push_application_context"
    /\ phase = "idle"
    /\ OwnCtxs # {}
    /\ Done("_monkeypatch_response_class")
    /\ cur.declares

\* C10: when a configuration write raised, the test is a setup error, its body
\* does not run, and once the test is finished every finalizer has run: a
\* context pushed in the test is popped exactly once and the slot holds the
\* original response type.
C10_ConfigFailure ==
    errAt = "_configure_application" =>
        /\ report = "error"
        /\ ~bodyRan
        /\ phase # "setup"
        /\ phase = "idle" =>
              /\ finalizers = <<>>
              /\ mpSaved = <<>>
              /\ response_class = slotBefore
              /\ \A i \in OwnCtxs : ctxs[i].pushes = 1 /\ ctxs[i].pops = 1

C10_Witness ==
    /\ errAt = "_configure_application"
    /\ phase = "idle"
    /\ config # configBefore
    /\ \E i \in OwnCtxs : ctxs[i].pushes = 1 /\ ctxs[i].pops = 1
    /\ "_monkeypatch_response_class" \in Range(fired)
    /\ MakeTestResponseClass(slotBefore) # slotBefore

\* f was set up before g in the current test
SetUpBefore(f, g) ==
    \E i, j \in DOMAIN fired : i < j /\ fired[i] = f /\ fired[j] = g

\* every finalizer of the current test has run: the contexts it pushed are
\* popped once and the slot holds the original response type
CleanedUp ==
    /\ finalizers = <<>>
    /\ mpSaved = <<>>
    /\ response_class = slotBefore
    /\ \A i \in OwnCtxs : ctxs[i].pushes = 1 /\ ctxs[i].pops = 1

\* C11: once the body of a test has failed, the reported result stays the
\* body's failure through teardown, whether or not ctx.pop() raises, and the
\* test finishes only with both cleanups executed: the context popped and the
\* original response type back in the slot.
C11_TeardownAfterFailure ==
    [][(report = "failed" /\ phase = "teardown")
          => (report' = "failed" /\ (phase' = "idle" => CleanedUp'))]_vars

C11_Witness ==
    /\ phase = "idle"
    /\ report = "failed"
    /\ cur.declares
    /\ tdErrors = {"pop"}
    /\ SetUpBefore("_monkeypatch_response_class", "_push_application_context")
    /\ MakeTestResponseClass(slotBefore) # slotBefore
    /\ CleanedUp

\* a step that is a read of the json accessor
IsRead == lastRead'.n = lastRead.n + 1

\* C12: constructing a response and replacing its data never call json.loads
\* and succeed for every body; a read that has to decode a body that is not
\* JSON raises and gives no value.
C12_LazyDecode ==
    [][/\ lastRead'.n = 0 => (loads' = 0 /\ resp'.cache = <<>>)
       /\ (IsRead /\ resp.cache = <<>> /\ ~JsonLoads(resp.data).ok)
             => (lastRead'.outcome = "raise" /\ lastRead'.value = <<>>)]_vars

C12_Witness ==
    /\ resp.made
    /\ ~JsonLoads(resp.data).ok
    /\ Len(resp.data) = 2
    /\ lastRead = [n |-> 1, outcome |-> "raise", value |-> <<>>, data |-> resp.data]
    /\ loads = 1

\* C15: a read that finds a cached value returns it without calling json.loads,
\* whatever the data is by then; a read that finds none decodes once and caches
\* the value when the decoding succeeds, and caches nothing when it raises.
C15_Memoized ==
    [][IsRead =>
         IF resp.cache # <<>>
         THEN /\ loads' = loads
              /\ lastRead'.outcome = "value"
              /\ lastRead'.value = resp.cache
              /\ resp'.cache = resp.cache
         ELSE /\ loads' = loads + 1
              /\ IF JsonLoads(resp.data).ok
                 THEN /\ resp'.cache = <<JsonLoads(resp.data)>>
                      /\ lastRead'.value = resp'.cache
                 ELSE resp'.cache = <<>>]_vars

C15_Witness ==
    /\ resp.made
    /\ resp.cache # <<>>
    /\ ~JsonLoads(resp.data).ok
    /\ lastRead.n >= 2
    /\ lastRead.data = resp.data
    /\ lastRead.outcome = "value"
    /\ lastRead.value = resp.cache
    /\ loads = 1

\* C13 as stated: the mapping left by _configure_application is the one that
\* applying the annotation's keys in any order gives.
C13_OrderIndependent ==
    Configured =>
        \A o \in Orders(DOMAIN cur.kwargs) :
            config = ApplyOptions(configBefore, cur.kwargs, o, Len(o))

BothDone == \A w \in Workers : wpc[w] = "done"

\* both tests installed their type before either restored, and the test that
\* installed first restored first
Overlapped ==
    /\ Len(wTrace) = 4
    /\ wTrace[2].step = "patch"
    /\ wTrace[3].w = wTrace[1].w

\* C14: when both interleaved tests have finished teardown, the slot holds the
\* original type or the type augmented from it, and it holds the augmented one
\* exactly when augmenting changes the original and the test that installed
\* first also restored first; such a state is reachable.
C14_SwapRestoreUnsafe ==
    BothDone =>
        /\ response_class \in {slotBefore, MakeTestResponseClass(slotBefore)}
        /\ response_class # slotBefore
              <=> (Overlapped /\ MakeTestResponseClass(slotBefore) # slotBefore)

C14_Witness ==
    /\ BothDone
    /\ response_class # slotBefore
    /\ response_class = MakeTestResponseClass(slotBefore)
    /\ \A w \in Workers : wSaved[w] = <<>>

\* C16: the configuration mapping is written by _configure_application during
\* setup and by nothing else: no finalizer, no test start and no test end puts
\* a value back, so what one test's annotation wrote is what the next test sees.
C16_NoRollback ==
    [][config' # config =>
          /\ phase = "setup"
          /\ "_configure_application" \in pending
          /\ cur.declares
          /\ cur.marked]_vars

C16_Witness ==
    /\ testsRun >= 1
    /\ cur.declares
    /\ ~cur.marked
    /\ bodyRan
    /\ configBefore[<<"T", "E">>] # Absent
    /\ config = configBefore

\* a context made in the current test is pushed and not yet popped
ActiveCtx == \E i \in OwnCtxs : ctxs[i].pushes > ctxs[i].pops

\* C17: while a context pushed for a test declaring 'app' is active, the slot
\* holds the type augmented from the original and monkeypatch holds the
\* original: the push comes after the installation, the pop before the undo.
C17_ActiveImpliesAugmented ==
    (cur.declares /\ ActiveCtx) =>
        /\ response_class = MakeTestResponseClass(slotBefore)
        /\ mpSaved = <<slotBefore>>

C17_Witness ==
    /\ cur.declares
    /\ ActiveCtx
    /\ bodyRan
    /\ response_class # slotBefore
    /\ Len(finalizers) = 2
    /\ LastFinalizer.kind = "pop"

====
